---- MODULE Spec2Model ----
(***************************************************************************)
(* Model of dojo/home/views.py: the `home` redirect and the `dashboard`    *)
(* view with its two aggregation helpers, get_severities_all and           *)
(* get_severities_by_month.                                                *)
(*                                                                         *)
(* The findings queryset is modelled as a sequence of rows (the index is   *)
(* the primary key).  Timestamps are DateTimeField values: a calendar date *)
(* plus a time of day, 0 for 00:00:00 and 1 for any later time that day.   *)
(* ORM lookups are modelled by the SQL they produce: COUNT(col) skips      *)
(* NULLs, a date compared with a DateTimeField is cast to that day's       *)
(* midnight, GROUP BY yields one row per distinct key in an arbitrary      *)
(* order when order_by() clears the ordering.                              *)
(***************************************************************************)
EXTENDS Integers, Sequences, FiniteSets, TLC

VARIABLES findings, today, request, response, messages

vars == <<findings, today, request, response, messages>>

\* ------------------------------------------------------------------ bounds

\* Largest finding collection drawn by Init.
MaxFindings == 2
\* InitMonths draws findings from MonthsBack months before today onwards.
MonthsBack == 7

\* ------------------------------------------------------- calendar arithmetic

Date(y, m, d) == [year |-> y, month |-> m, day |-> d]

DateTime(date, tod) ==
    [year |-> date.year, month |-> date.month, day |-> date.day, tod |-> tod]

IsLeap(y) == (y % 4 = 0 /\ y % 100 # 0) \/ y % 400 = 0

DaysInMonth(y, m) ==
    IF m = 2 THEN (IF IsLeap(y) THEN 29 ELSE 28)
    ELSE IF m \in {4, 6, 9, 11} THEN 30 ELSE 31

Min(a, b) == IF a <= b THEN a ELSE b

\* date - timedelta(days=1)
PrevDay(date) ==
    IF date.day > 1 THEN Date(date.year, date.month, date.day - 1)
    ELSE IF date.month > 1
         THEN Date(date.year, date.month - 1, DaysInMonth(date.year, date.month - 1))
         ELSE Date(date.year - 1, 12, 31)

\* date - timedelta(days=n)
RECURSIVE MinusDays(_, _)
MinusDays(date, n) == IF n = 0 THEN date ELSE MinusDays(PrevDay(date), n - 1)

\* date + relativedelta(months=k), k may be negative: the month is shifted and
\* the day is clipped to the last day of the resulting month.
PlusMonths(date, k) ==
    LET total == date.year * 12 + (date.month - 1) + k
        y == total \div 12
        m == (total % 12) + 1
    IN  Date(y, m, Min(date.day, DaysInMonth(y, m)))

\* Order-preserving encodings used for comparisons.
DateNum(date) == date.year * 10000 + date.month * 100 + date.day
DateTimeNum(dt) == DateNum(dt) * 2 + dt.tod

\* The created__date transform: the date part of a DateTimeField.
created__date(dt) == Date(dt.year, dt.month, dt.day)

\* DateTimeField.to_python on a datetime.date: that day at 00:00:00.
DateAsDateTime(date) == DateTime(date, 0)

\* ------------------------------------------------------------ text formatting

DIGITS == <<"0", "1", "2", "3", "4", "5", "6", "7", "8", "9">>

\* str(n) for n >= 0: decimal digits, no padding.
RECURSIVE IntToStr(_)
IntToStr(n) ==
    IF n < 10 THEN <<DIGITS[n + 1]>>
    ELSE Append(IntToStr(n \div 10), DIGITS[(n % 10) + 1])

\* Mutant of ZeroPad2: the month is formatted without padding.
ZeroPad2_Unpadded(n) == IntToStr(n)

\* format(n, "02"): zero-padded on the left to width 2.
ZeroPad2(n) ==
    LET s == IntToStr(n) IN IF Len(s) < 2 THEN <<"0">> \o s ELSE s

\* f"{ms['created__year']}-{ms['created__month']:02}"
MonthKey(year, month) == IntToStr(year) \o <<"-">> \o ZeroPad2(month)

\* Code point of a character of a key.
Ord(c) ==
    CASE c = "-" -> 45
      [] c = "0" -> 48 [] c = "1" -> 49 [] c = "2" -> 50 [] c = "3" -> 51
      [] c = "4" -> 52 [] c = "5" -> 53 [] c = "6" -> 54 [] c = "7" -> 55
      [] c = "8" -> 56 [] c = "9" -> 57

\* Python's str.__lt__: lexicographic by code point, a proper prefix is less.
RECURSIVE StrLess(_, _)
StrLess(s, t) ==
    IF t = <<>> THEN FALSE
    ELSE IF s = <<>> THEN TRUE
    ELSE IF Ord(Head(s)) # Ord(Head(t)) THEN Ord(Head(s)) < Ord(Head(t))
    ELSE StrLess(Tail(s), Tail(t))

\* ------------------------------------------------------------------- data

\* SQL NULL in the severity column.
NULL == "<NULL>"

KnownSeverities == {"Critical", "High", "Medium", "Low", "Info"}

Ids(fs) == 1 .. Len(fs)

\* ---------------------------------------------------------- get_severities_all

\* Count('severity') over the rows of one group: COUNT(col) counts the rows
\* whose col is not NULL.
CountSeverity(fs, group) == Cardinality({i \in group : fs[i].severity # NULL})

\* findings.values('severity').annotate(count=Count('severity')).order_by(),
\* turned into {s['severity']: s['count']}.
get_severities_all(fs) ==
    LET labels == {fs[i].severity : i \in Ids(fs)}
    IN  [s \in labels |-> CountSeverity(fs, {i \in Ids(fs) : fs[i].severity = s})]

\* Mutant of DefaultLookup: a plain dict, whose missing key fails (shown as -1).
DefaultLookup_PlainDict(d, key) == IF key \in DOMAIN d THEN d[key] ELSE -1

\* defaultdict(lambda: 0, ...)[key]
DefaultLookup(d, key) == IF key \in DOMAIN d THEN d[key] ELSE 0

\* ----------------------------------------------------- get_severities_by_month

\* Mutant of SEVERITY_MAP: an unmapped severity falls into the last slot.
SEVERITY_MAP_UnmappedAsInfo(severity) ==
    CASE severity = "Critical" -> "a"
      [] severity = "High" -> "b"
      [] severity = "Medium" -> "c"
      [] severity = "Low" -> "d"
      [] OTHER -> "e"

\* SEVERITY_MAP.get(severity): the chart's slot, None for anything unmapped.
SEVERITY_MAP(severity) ==
    CASE severity = "Critical" -> "a"
      [] severity = "High" -> "b"
      [] severity = "Medium" -> "c"
      [] severity = "Low" -> "d"
      [] severity = "Info" -> "e"
      [] OTHER -> "None"

\* Mutant of MonthsCutoff: the table reaches back seven months.
MonthsCutoff_SevenMonths(t) == PlusMonths(t, -7)

\* today - relativedelta(months=6)
MonthsCutoff(t) == PlusMonths(t, -6)

\* .filter(created__date__gte=(today - relativedelta(months=6)))
CreatedSinceCutoff(fs, t) ==
    {i \in Ids(fs) : DateNum(created__date(fs[i].created)) >= DateNum(MonthsCutoff(t))}

GroupKey(f) ==
    [created__year |-> f.created.year, created__month |-> f.created.month,
     severity |-> f.severity]

\* The GROUP BY rows in order of first appearance in the table.
RECURSIVE GroupRows(_, _, _, _)
GroupRows(fs, sel, i, acc) ==
    IF i > Len(fs) THEN acc
    ELSE IF i \notin sel \/ \E k \in 1 .. Len(acc) : acc[k].key = GroupKey(fs[i])
         THEN GroupRows(fs, sel, i + 1, acc)
         ELSE GroupRows(fs, sel, i + 1,
                  Append(acc,
                      [key |-> GroupKey(fs[i]),
                       count |-> CountSeverity(fs,
                           {j \in sel : GroupKey(fs[j]) = GroupKey(fs[i])})]))

Reverse(s) == [k \in 1 .. Len(s) |-> s[Len(s) + 1 - k]]

\* The annotated queryset; order_by() leaves the row order to the database:
\* `reversed` chooses between two of the orders it may return.
severities_by_month(fs, t, reversed) ==
    LET rows == GroupRows(fs, CreatedSinceCutoff(fs, t), 1, <<>>)
    IN  IF reversed THEN Reverse(rows) ELSE rows

NewMonthStats(key) ==
    [y |-> key, a |-> 0, b |-> 0, c |-> 0, d |-> 0, e |-> 0, None |-> 0]

\* The loop over the rows: results is the dict in insertion order.
RECURSIVE Accumulate(_, _, _)
Accumulate(rows, k, results) ==
    IF k > Len(rows) THEN results
    ELSE LET ms == rows[k]
             key == MonthKey(ms.key.created__year, ms.key.created__month)
             slot == SEVERITY_MAP(ms.key.severity)
             present == \E n \in 1 .. Len(results) : results[n].y = key
             with == IF present THEN results ELSE Append(results, NewMonthStats(key))
             n == CHOOSE n \in 1 .. Len(with) : with[n].y = key
         IN  Accumulate(rows, k + 1,
                 [with EXCEPT ![n] = [@ EXCEPT ![slot] = @ + ms.count]])

\* sorted(results.items()): ascending by key string.
RECURSIVE InsertSorted(_, _)
InsertSorted(sorted, row) ==
    IF sorted = <<>> THEN <<row>>
    ELSE IF StrLess(row.y, Head(sorted).y) THEN <<row>> \o sorted
    ELSE <<Head(sorted)>> \o InsertSorted(Tail(sorted), row)

RECURSIVE SortByKey(_)
SortByKey(results) ==
    IF results = <<>> THEN <<>>
    ELSE InsertSorted(SortByKey(Tail(results)), Head(results))

get_severities_by_month(fs, t, reversed) ==
    SortByKey(Accumulate(severities_by_month(fs, t, reversed), 1, <<>>))

\* ------------------------------------------------------------------ dashboard

\* beginning_date = today - timedelta(days=6)
beginning_date(t) == MinusDays(t, 6)

\* field__gte=beginning_date, field__lte=today on a DateTimeField: both dates
\* are cast to midnight before the comparison.
InWindow(dt, t) ==
    /\ DateTimeNum(dt) >= DateTimeNum(DateAsDateTime(beginning_date(t)))
    /\ DateTimeNum(dt) <= DateTimeNum(DateAsDateTime(t))

\* findings.filter(created__gte=..., created__lte=...).order_by().count()
finding_count(fs, t) == Cardinality({i \in Ids(fs) : InWindow(fs[i].created, t)})

\* findings.filter(mitigated__gte=..., mitigated__lte=...).count(): a NULL
\* mitigated satisfies neither comparison.
mitigated_count(fs, t) ==
    Cardinality({i \in Ids(fs) :
        \E k \in 1 .. Len(fs[i].mitigated) : InWindow(fs[i].mitigated[k], t)})

\* findings.filter(risk_acceptance__created__gte=...,
\* risk_acceptance__created__lte=...).count(): the join yields one row per
\* (finding, risk acceptance) pair satisfying both conditions, and the
\* queryset's distinct() keeps one row per finding.
accepted_count(fs, t) ==
    LET joined == {<<i, ra>> \in UNION {{<<i, ra>> : ra \in fs[i].risk_acceptance} : i \in Ids(fs)} :
                       InWindow(ra, t)}
    IN  Cardinality({row[1] : row \in joined})

LEGACY_WARNING == "Legacy authorization for changing configurations"

NoContext == <<>>

\* The values dashboard computes from the findings before rendering.
DashboardAggregates(fs, t) ==
    [finding_count |-> finding_count(fs, t),
     mitigated_count |-> mitigated_count(fs, t),
     accepted_count |-> accepted_count(fs, t),
     severity_count_all |-> get_severities_all(fs)]

\* The context handed to render().
DashboardContext(aggregates, severity_count_by_month, unassigned_surveys) ==
    [engagement_count |-> "engagement_count",
     finding_count |-> aggregates.finding_count,
     mitigated_count |-> aggregates.mitigated_count,
     accepted_count |-> aggregates.accepted_count,
     critical |-> DefaultLookup(aggregates.severity_count_all, "Critical"),
     high |-> DefaultLookup(aggregates.severity_count_all, "High"),
     medium |-> DefaultLookup(aggregates.severity_count_all, "Medium"),
     low |-> DefaultLookup(aggregates.severity_count_all, "Low"),
     info |-> DefaultLookup(aggregates.severity_count_all, "Info"),
     by_month |-> severity_count_by_month,
     punchcard |-> "punchcard",
     ticks |-> "ticks",
     surveys |-> unassigned_surveys]

\* Mutant of WarnsLegacy: every superuser is warned, whatever the setting.
WarnsLegacy_AnySuperuser(is_superuser, feature_configuration_authorization) ==
    is_superuser

\* The legacy-authorization warning is added for this request.
WarnsLegacy(is_superuser, feature_configuration_authorization) ==
    is_superuser /\ ~feature_configuration_authorization

\* A request is handled once, by one view: both views wait for a request that
\* has no response yet.
Pending == response.status = "none"

\* def home(request): redirect to the dashboard.
home ==
    /\ Pending
    /\ response' = [status |-> "redirect", to |-> "dashboard",
                    template |-> "", context |-> NoContext]
    /\ request' = [view |-> "home", is_superuser |-> FALSE,
                   FEATURE_CONFIGURATION_AUTHORIZATION |-> TRUE]
    /\ messages' = <<>>
    /\ UNCHANGED <<findings, today>>

\* def dashboard(request): the inputs are the requesting user, the setting,
\* the outcome of user_has_configuration_permission and the row order the
\* database returns.
dashboard ==
    /\ Pending
    /\ LET aggregates == DashboardAggregates(findings, today)
           forward == get_severities_by_month(findings, today, FALSE)
           backward == get_severities_by_month(findings, today, TRUE)
       IN  \E is_superuser \in BOOLEAN, feature \in BOOLEAN,
              may_view_surveys \in BOOLEAN, reversed \in BOOLEAN :
               /\ request' = [view |-> "dashboard", is_superuser |-> is_superuser,
                              FEATURE_CONFIGURATION_AUTHORIZATION |-> feature]
               /\ messages' = IF WarnsLegacy(is_superuser, feature)
                              THEN <<LEGACY_WARNING>> ELSE <<>>
               /\ response' =
                      [status |-> "render", to |-> "",
                       template |-> "dojo/dashboard.html",
                       context |-> DashboardContext(aggregates,
                           IF reversed THEN backward ELSE forward,
                           IF may_view_surveys THEN "unassigned_surveys" ELSE "None")]
    /\ UNCHANGED <<findings, today>>

\* ---------------------------------------------------------------- input space

Severities == <<"Critical", "High", "Medium", "Low", "Info", "Urgent", NULL>>

Todays == {Date(2024, 8, 31), Date(2024, 1, 3), Date(2023, 3, 1)}

Finding(severity, created, mitigated, risk_acceptance) ==
    [severity |-> severity, created |-> created, mitigated |-> mitigated,
     risk_acceptance |-> risk_acceptance]

\* Creation times around the edges of the week window and of the six-month
\* cutoff, relative to today.
CreatedChoices(t) ==
    <<DateTime(t, 1), DateTime(t, 0),
      DateTime(MinusDays(t, 6), 0), DateTime(MinusDays(t, 7), 1),
      DateTime(MonthsCutoff(t), 0), DateTime(PrevDay(MonthsCutoff(t)), 1),
      DateTime(PlusMonths(t, -7), 0), DateTime(PlusMonths(t, 1), 0)>>

MitigatedChoices(t) ==
    <<<<>>, <<DateTime(t, 1)>>, <<DateTime(MinusDays(t, 6), 0)>>,
      <<DateTime(MinusDays(t, 7), 1)>>>>

RiskAcceptanceChoices(t) ==
    <<{}, {DateTime(t, 0)}, {DateTime(MinusDays(t, 7), 1)},
      {DateTime(MinusDays(t, 3), 1), DateTime(MinusDays(t, 1), 0)}>>

\* Findings of every severity, never mitigated or accepted, created today,
\* on the six-month cutoff, the day before it and a month from now, and two
\* created seven months ago; Critical findings around the week window, not
\* mitigated or mitigated inside and outside the window; Critical findings
\* with risk acceptances inside and outside the window.
FindingChoices(t) ==
    LET cs == CreatedChoices(t)
        ms == MitigatedChoices(t)
        rs == RiskAcceptanceChoices(t)
        monthly == <<1, 5, 6, 8>>
        inside == 1
        outside == 4
        bySeverity == [k \in 1 .. (Len(Severities) * Len(monthly)) |->
                          Finding(Severities[((k - 1) \div Len(monthly)) + 1],
                                  cs[monthly[((k - 1) % Len(monthly)) + 1]], <<>>, {})]
        sevenMonthsAgo == <<Finding("High", cs[7], <<>>, {}),
                            Finding(NULL, cs[7], <<>>, {})>>
        onWindowEdge == [k \in 1 .. 3 |-> Finding("Critical", cs[k + 1], <<>>, {})]
        byMitigated == [k \in 1 .. (2 * (Len(ms) - 1)) |->
                           Finding("Critical",
                                   cs[IF k % 2 = 1 THEN inside ELSE outside],
                                   ms[((k - 1) \div 2) + 2], {})]
        byAccepted == [k \in 1 .. (2 * (Len(rs) - 1)) |->
                          Finding("Critical",
                                  cs[IF k % 2 = 1 THEN inside ELSE outside],
                                  <<>>, rs[((k - 1) \div 2) + 2])]
        inAllCounts == <<Finding("Critical", cs[2], ms[3], rs[2])>>
    IN  bySeverity \o sevenMonthsAgo \o onWindowEdge \o byMitigated
            \o byAccepted \o inAllCounts

\* A collection is drawn as a multiset: the choices' indices never decrease.
Collections(t, n) ==
    LET choices == FindingChoices(t)
    IN  {[i \in 1 .. n |-> choices[idx[i]]] :
            idx \in {f \in [1 .. n -> 1 .. Len(choices)] :
                        \A i \in 1 .. n - 1 : f[i] <= f[i + 1]}}

NoRequest == [view |-> "none", is_superuser |-> FALSE,
              FEATURE_CONFIGURATION_AUTHORIZATION |-> TRUE]

NoResponse == [status |-> "none", to |-> "", template |-> "", context |-> NoContext]

Init ==
    /\ today \in Todays
    /\ \E n \in 0 .. MaxFindings : findings \in Collections(today, n)
    /\ request = NoRequest
    /\ response = NoResponse
    /\ messages = <<>>

Next == home \/ dashboard

Spec == Init /\ [][Next]_vars

\* One finding per month from MonthsBack months ago to today, one a month
\* from now, one on the day before the six-month cutoff and a second one in
\* today's month; severities cycle through Severities.
MonthCandidates(t) ==
    [k \in 1 .. (MonthsBack + 1) |-> DateTime(PlusMonths(t, k - 1 - MonthsBack), 0)]
        \o <<DateTime(PlusMonths(t, 1), 0),
             DateTime(PrevDay(MonthsCutoff(t)), 1),
             DateTime(t, 1)>>

RECURSIVE PickFindings(_, _, _)
PickFindings(cands, chosen, k) ==
    IF k > Len(cands) THEN <<>>
    ELSE IF k \in chosen
         THEN <<Finding(Severities[(k % Len(Severities)) + 1], cands[k], <<>>, {})>>
              \o PickFindings(cands, chosen, k + 1)
         ELSE PickFindings(cands, chosen, k + 1)

InitMonths ==
    /\ today \in Todays
    /\ \E chosen \in SUBSET (1 .. Len(MonthCandidates(today))) :
           findings = PickFindings(MonthCandidates(today), chosen, 1)
    /\ request = NoRequest
    /\ response = NoResponse
    /\ messages = <<>>

SpecMonths == InitMonths /\ [][Next]_vars

\* ------------------------------------------------------------------- claims

Rendered == response.status = "render"

by_month == response.context.by_month

RowSlots == {"a", "b", "c", "d", "e", "None"}

RECURSIVE SumOver(_, _)
SumOver(f, keys) ==
    IF keys = {} THEN 0
    ELSE LET k == CHOOSE k \in keys : TRUE IN f[k] + SumOver(f, keys \ {k})

CreatedDate(i) == created__date(findings[i].created)

\* Finding i was created on or after today - 6 months.
SinceCutoff(i) == DateNum(CreatedDate(i)) >= DateNum(PlusMonths(today, -6))

KeyOf(i) == MonthKey(findings[i].created.year, findings[i].created.month)

\* The findings the monthly table is about for the month with this key.
InMonth(key) == {i \in Ids(findings) : SinceCutoff(i) /\ KeyOf(i) = key}

WithSeverity(s) == {i \in Ids(findings) : findings[i].severity = s}

\* The calendar date of dt lies in [today - 6 days, today].
OnWindowDay(dt) ==
    /\ DateNum(created__date(dt)) >= DateNum(MinusDays(today, 6))
    /\ DateNum(created__date(dt)) <= DateNum(today)

\* C1: the counts of the mapping get_severities_all returns sum to the number
\* of findings in the collection, null severities included.
C1_TotalsSumToSize ==
    Rendered =>
        LET totals == get_severities_all(findings)
        IN  SumOver(totals, DOMAIN totals) = Len(findings)

\* C2: in every row of the monthly table the six counters sum to the number
\* of findings created in the row's month on or after today - 6 months, null
\* severities included.
C2_RowSumsToMonthCount ==
    Rendered =>
        \A k \in 1 .. Len(by_month) :
            SumOver(by_month[k], RowSlots) = Cardinality(InMonth(by_month[k].y))

\* C3: finding_count is the number of findings created on one of the seven
\* days today - 6 .. today, at any time of day.
C3_FindingCountCoversSevenDays ==
    Rendered =>
        response.context.finding_count =
            Cardinality({i \in Ids(findings) : OnWindowDay(findings[i].created)})

\* C3, holding part: a finding with a NULL mitigated date is never in
\* mitigated_count, the three counts never exceed the number of findings, and
\* one finding can be in all three.
C3_WeekCountsAreOfFindings ==
    Rendered =>
        /\ response.context.mitigated_count
               <= Cardinality({i \in Ids(findings) : findings[i].mitigated # <<>>})
        /\ response.context.accepted_count
               <= Cardinality({i \in Ids(findings) : findings[i].risk_acceptance # {}})
        /\ response.context.finding_count <= Len(findings)

\* C4: a finding created before today - 6 months adds no row and no counter
\* to the monthly table and is still counted in the severity totals; for one
\* Critical finding of today's month and one High finding created 7 months
\* before today the totals are Critical 1, High 1 and the table is the single
\* row of today's month with a = 1 and every other counter 0.
C4_OldFindingsOnlyInTotals ==
    Rendered =>
        /\ \A k \in 1 .. Len(by_month) :
               /\ InMonth(by_month[k].y) # {}
               /\ \A slot \in RowSlots :
                      by_month[k][slot] <=
                          Cardinality({i \in InMonth(by_month[k].y) :
                                          SEVERITY_MAP(findings[i].severity) = slot})
        /\ \A i \in Ids(findings) :
               ~SinceCutoff(i) =>
                   DefaultLookup(get_severities_all(findings), findings[i].severity) =
                       Cardinality(WithSeverity(findings[i].severity))
        /\ \A i, j \in Ids(findings) :
               ( /\ Len(findings) = 2
                 /\ findings[i].severity = "Critical"
                 /\ findings[i].created.year = today.year
                 /\ findings[i].created.month = today.month
                 /\ findings[j].severity = "High"
                 /\ CreatedDate(j) = PlusMonths(today, -7) )
               => /\ response.context.critical = 1
                  /\ response.context.high = 1
                  /\ by_month = <<[y |-> MonthKey(today.year, today.month),
                                   a |-> 1, b |-> 0, c |-> 0, d |-> 0, e |-> 0,
                                   None |-> 0]>>

\* C4 for findings that carry a severity: the same statement, with "still
\* counted in the totals" asked only of old findings whose severity is not NULL.
C4_OldLabelledFindingsOnlyInTotals ==
    Rendered =>
        /\ \A k \in 1 .. Len(by_month) :
               /\ InMonth(by_month[k].y) # {}
               /\ \A slot \in RowSlots :
                      by_month[k][slot] <=
                          Cardinality({i \in InMonth(by_month[k].y) :
                                          SEVERITY_MAP(findings[i].severity) = slot})
        /\ \A i \in Ids(findings) :
               (~SinceCutoff(i) /\ findings[i].severity # NULL) =>
                   DefaultLookup(get_severities_all(findings), findings[i].severity) =
                       Cardinality(WithSeverity(findings[i].severity))
        /\ \A i, j \in Ids(findings) :
               ( /\ Len(findings) = 2
                 /\ findings[i].severity = "Critical"
                 /\ findings[i].created.year = today.year
                 /\ findings[i].created.month = today.month
                 /\ findings[j].severity = "High"
                 /\ CreatedDate(j) = PlusMonths(today, -7) )
               => /\ response.context.critical = 1
                  /\ response.context.high = 1
                  /\ Len(by_month) = 1
                  /\ by_month[1].y = MonthKey(today.year, today.month)
                  /\ by_month[1].a = 1
                  /\ \A slot \in RowSlots \ {"a"} : by_month[1][slot] = 0

C4_ScenarioRendered ==
    /\ Rendered
    /\ Len(findings) = 2
    /\ \E i, j \in Ids(findings) :
           /\ findings[i].severity = "Critical"
           /\ findings[i].created.year = today.year
           /\ findings[i].created.month = today.month
           /\ findings[j].severity = "High"
           /\ CreatedDate(j) = PlusMonths(today, -7)

\* The months, as <<year, month>>, that have a finding created on or after
\* today - 6 months.
TableMonths ==
    {<<findings[i].created.year, findings[i].created.month>> :
        i \in {j \in Ids(findings) : SinceCutoff(j)}}

Earlier(ym1, ym2) == ym1[1] < ym2[1] \/ (ym1[1] = ym2[1] /\ ym1[2] < ym2[2])

\* C5: the rows are strictly ascending by key string, no key occurs twice,
\* and the k-th row is the k-th month in chronological order.
C5_RowsAscendChronologically ==
    Rendered =>
        /\ \A k \in 1 .. Len(by_month) - 1 : StrLess(by_month[k].y, by_month[k + 1].y)
        /\ \A k, n \in 1 .. Len(by_month) : by_month[k].y = by_month[n].y => k = n
        /\ Len(by_month) = Cardinality(TableMonths)
        /\ \A ym \in TableMonths :
               LET rank == Cardinality({other \in TableMonths : Earlier(other, ym)}) + 1
               IN  by_month[rank].y = MonthKey(ym[1], ym[2])

\* Rows of a single-digit month, a two-digit month and a later year, with
\* two findings sharing a month.
C5_ManyMonthsRendered ==
    /\ Rendered
    /\ Len(by_month) >= 5
    /\ \E k, n \in 1 .. Len(by_month) :
           /\ by_month[k].y[6] = "0"
           /\ by_month[n].y[6] = "1"
    /\ \E k \in 1 .. Len(by_month) - 1 : by_month[k].y[4] # by_month[k + 1].y[4]
    /\ \E i, j \in Ids(findings) : i # j /\ SinceCutoff(i) /\ SinceCutoff(j) /\ KeyOf(i) = KeyOf(j)

\* C6: a label no finding carries looks up as 0 in the mapping of
\* get_severities_all, and critical, high, medium, low and info are each the
\* number of findings with that severity.
C6_AbsentLabelsAreZero ==
    Rendered =>
        /\ \A label \in KnownSeverities \cup {"Urgent", "Unrated"} :
               WithSeverity(label) = {} =>
                   DefaultLookup(get_severities_all(findings), label) = 0
        /\ response.context.critical = Cardinality(WithSeverity("Critical"))
        /\ response.context.high = Cardinality(WithSeverity("High"))
        /\ response.context.medium = Cardinality(WithSeverity("Medium"))
        /\ response.context.low = Cardinality(WithSeverity("Low"))
        /\ response.context.info = Cardinality(WithSeverity("Info"))

\* Some known label is absent from a non-empty collection and another is
\* present.
C6_AbsentLabelRendered ==
    /\ Rendered
    /\ WithSeverity("Critical") = {}
    /\ WithSeverity("Medium") # {}
    /\ response.context.critical = 0

\* The findings whose severity is a label outside the five known ones.
UnknownLabelled(ids) ==
    {i \in ids : findings[i].severity \notin KnownSeverities \cup {NULL}}

\* C7: a finding whose severity is a label outside the five known ones is
\* counted in the totals under that label, and in the monthly table it adds
\* to the None slot of its month's row only: the None slot counts exactly
\* those findings and a..e count exactly the findings of their own severity.
C7_UnknownLabelGoesToNoneSlot ==
    Rendered =>
        /\ \A i \in UnknownLabelled(Ids(findings)) :
               DefaultLookup(get_severities_all(findings), findings[i].severity) =
                   Cardinality(WithSeverity(findings[i].severity))
        /\ \A i \in UnknownLabelled(Ids(findings)) :
               SinceCutoff(i) =>
                   \E k \in 1 .. Len(by_month) :
                       /\ by_month[k].y = KeyOf(i)
                       /\ by_month[k].None =
                              Cardinality(UnknownLabelled(InMonth(KeyOf(i))))
                       /\ \A s \in KnownSeverities :
                              by_month[k][SEVERITY_MAP(s)] =
                                  Cardinality(InMonth(KeyOf(i)) \cap WithSeverity(s))

\* An unknown label shares its month with a known one.
C7_UnknownLabelRendered ==
    /\ Rendered
    /\ \E i, j \in Ids(findings) :
           /\ findings[i].severity = "Urgent"
           /\ findings[j].severity \in KnownSeverities
           /\ SinceCutoff(i) /\ SinceCutoff(j)
           /\ KeyOf(i) = KeyOf(j)
    /\ Len(by_month) = 1
    /\ by_month[1].None = 1

\* C8: a row is emitted for a month exactly when a finding was created in it
\* on or after today - 6 months, every emitted row has a non-zero counter,
\* and an empty collection gives no rows, zero totals and zero week counts.
C8_RowsOnlyForNonEmptyMonths ==
    Rendered =>
        /\ {by_month[k].y : k \in 1 .. Len(by_month)} =
               {KeyOf(i) : i \in {j \in Ids(findings) : SinceCutoff(j)}}
        /\ \A k \in 1 .. Len(by_month) : \E slot \in RowSlots : by_month[k][slot] # 0
        /\ findings = <<>> =>
               /\ by_month = <<>>
               /\ response.context.critical = 0 /\ response.context.high = 0
               /\ response.context.medium = 0 /\ response.context.low = 0
               /\ response.context.info = 0
               /\ response.context.finding_count = 0
               /\ response.context.mitigated_count = 0
               /\ response.context.accepted_count = 0

\* C9: the legacy-authorization warning is added exactly when the user is a
\* superuser and FEATURE_CONFIGURATION_AUTHORIZATION is false; whatever the
\* two flags are, the dashboard template is rendered with the aggregates of
\* the findings.
C9_WarningOnlyForLegacySuperuser ==
    (request.view = "dashboard") =>
        /\ (messages = <<LEGACY_WARNING>>) <=>
               (request.is_superuser /\ ~request.FEATURE_CONFIGURATION_AUTHORIZATION)
        /\ messages \in {<<>>, <<LEGACY_WARNING>>}
        /\ Rendered
        /\ response.template = "dojo/dashboard.html"
        /\ response.context.critical = Cardinality(WithSeverity("Critical"))
        /\ response.context.high = Cardinality(WithSeverity("High"))
        /\ response.context.medium = Cardinality(WithSeverity("Medium"))
        /\ response.context.low = Cardinality(WithSeverity("Low"))
        /\ response.context.info = Cardinality(WithSeverity("Info"))
        /\ response.context.finding_count <= Len(findings)
        /\ Len(by_month) = Cardinality(TableMonths)
        /\ by_month = get_severities_by_month(findings, today, FALSE)

C9_WarningRendered ==
    /\ Rendered
    /\ messages = <<LEGACY_WARNING>>
    /\ request.is_superuser
    /\ findings # <<>>

\* C10: no row key is earlier than the key of today - 6 months; when no
\* finding is created after today there are at most 7 rows; a finding created
\* after today still has a row.
C10_TableSpansSevenMonths ==
    Rendered =>
        LET cutoff == PlusMonths(today, -6)
        IN  /\ \A k \in 1 .. Len(by_month) :
                   ~StrLess(by_month[k].y, MonthKey(cutoff.year, cutoff.month))
            /\ (\A i \in Ids(findings) : DateNum(CreatedDate(i)) <= DateNum(today))
                   => Len(by_month) <= 7
            /\ \A i \in Ids(findings) :
                   DateNum(CreatedDate(i)) > DateNum(today) =>
                       \E k \in 1 .. Len(by_month) : by_month[k].y = KeyOf(i)

\* All seven months of the span have a row, and an older finding has none.
C10_SevenRowsRendered ==
    /\ Rendered
    /\ Len(by_month) = 7
    /\ \A i \in Ids(findings) : DateNum(CreatedDate(i)) <= DateNum(today)
    /\ \E i \in Ids(findings) : ~SinceCutoff(i)

====
